---- MODULE Spec2Model ----
(***************************************************************************)
(* OrganicKeyframeAnimator of goliath_animation_generator.py as a state    *)
(* machine.  One action per public method; generate_movement is one atomic *)
(* step that covers normalisation, segment assembly and smoothing.         *)
(*                                                                         *)
(* Number representation.  The program computes in IEEE doubles; the model *)
(* computes in fixed point:                                                *)
(*   joint values, amplitudes       1 unit = 1e-6  (Micro)                 *)
(*   oscillation factors            1 unit = 1e-1  (FactorScale)           *)
(*   ease_t and speed_factor        1 unit = 1e-4  (RatioScale)            *)
(*   angles                         1 unit = 1e-3 rad (PiMilli = pi)       *)
(*   sine values                    1 unit = 1e-3  (SinScale)              *)
(* math.cos / math.sin are replaced by Bhaskara's rational approximation,  *)
(* which like the library functions is exact at 0, pi/2 and pi.            *)
(***************************************************************************)
EXTENDS Integers, Sequences, FiniteSets, TLC

VARIABLES
    total_frames,       \* self.total_frames
    global_osc_factor,  \* self.global_osc_factor
    osc_factors,        \* self.osc_factors
    osc_params,         \* self.osc_params
    keyframes,          \* self.keyframes
    data,               \* self.data (joint columns)
    status,             \* outcome of the last call: "idle", "done", "error"
    kf_in,              \* history: the keyframe store on entry to the last generate_movement
    fallback,           \* history: the last generate_movement took the no-keyframes branch
    writes,             \* history: every cell write of the last generate_movement
    raw,                \* history: self.data when the segment loop of the last generate_movement ended
    calls,              \* number of method calls made on the object
    session,            \* number of method calls the caller makes in all
    added,              \* history: the frames the caller passed to add_keyframe
    passes,             \* history: generate_movement calls since the last setter or add_keyframe call
    \* BlenderJointPublisher (blender_joint_publisher_node.py)
    loop,               \* self.loop
    node_data,          \* self.data: the columns and the rows of the loaded table
    current_frame,      \* self.current_frame
    frames_published,   \* self.frames_published
    timer,              \* self.timer: "none", "active", "cancelled"
    published,          \* history: the messages handed to self.publisher.publish, with their row
    ticks               \* history: number of timer callbacks run

animator_vars == <<total_frames, global_osc_factor, osc_factors, osc_params, keyframes,
                   data, status, kf_in, fallback, writes, raw, calls, session,
                   added, passes>>

node_vars == <<loop, node_data, current_frame, frames_published, timer,
               published, ticks>>

vars == <<animator_vars, node_vars>>

----------------------------------------------------------------------------
(* Bounds of the model *)

MaxFrames == 22
MidFrame == 11
MaxCalls == 3
MaxRows == 3
MaxTicks == 7

----------------------------------------------------------------------------
(* Units and arithmetic helpers *)

Micro == 1000000
FactorScale == 10
RatioScale == 10000
SinScale == 1000
PiMilli == 3142

Abs(x) == IF x < 0 THEN -x ELSE x
Max(a, b) == IF a >= b THEN a ELSE b
Min(a, b) == IF a <= b THEN a ELSE b

\* a / b rounded toward zero, b > 0
TruncDiv(a, b) == IF a >= 0 THEN a \div b ELSE -((-a) \div b)

\* a * b / c rounded toward zero without forming a * b, c > 0
MulDiv(a, b, c) ==
    LET s == IF (a < 0) = (b < 0) THEN 1 ELSE -1
        A == Abs(a)
        B == Abs(b)
    IN  s * ((A \div c) * B + ((A % c) * B) \div c)

----------------------------------------------------------------------------
(* Joint registry *)

RotationalJoints == {"joint_1", "joint_2", "joint_3", "joint_4",
                     "joint_5", "joint_6", "joint_7"}
SliderJoints == {"Slider 22", "Slider 23"}
Joints == RotationalJoints \cup SliderJoints

DefaultOscFactors ==
    [j \in Joints |->
        CASE j = "joint_1" -> 10
          [] j = "joint_2" -> 8
          [] j = "joint_3" -> 6
          [] j = "joint_4" -> 11
          [] j = "joint_5" -> 12
          [] j = "joint_6" -> 20
          [] j = "joint_7" -> 3
          [] OTHER -> 1]

DefaultOscParams ==
    [j \in Joints |->
        CASE j = "joint_1" -> [freq |-> 80, base_amp |-> 3000000, phase |-> 0]
          [] j = "joint_2" -> [freq |-> 120, base_amp |-> 2000000, phase |-> 785]
          [] j = "joint_3" -> [freq |-> 100, base_amp |-> 1500000, phase |-> 1571]
          [] j = "joint_4" -> [freq |-> 150, base_amp |-> 4000000, phase |-> 2356]
          [] j = "joint_5" -> [freq |-> 200, base_amp |-> 5000000, phase |-> 3142]
          [] j = "joint_6" -> [freq |-> 250, base_amp |-> 4000000, phase |-> 3927]
          [] j = "joint_7" -> [freq |-> 50, base_amp |-> 500000, phase |-> 0]
          [] j = "Slider 22" -> [freq |-> 300, base_amp |-> 1000, phase |-> 0]
          [] OTHER -> [freq |-> 300, base_amp |-> 1000, phase |-> 3142]]

InitialData(tf) ==
    [j \in Joints |->
        [f \in 0..(tf - 1) |->
            CASE j = "Slider 22" -> -22000
              [] j = "Slider 23" -> 22000
              [] OTHER -> 0]]

----------------------------------------------------------------------------
(* math.cos and math.sin *)

\* (1 - cos(t * pi)) / 2 for t = n / d in [0, 1], in RatioScale units;
\* t is 0 when the segment is degenerate (d = 0).
EaseT(n, d) ==
    IF d = 0 \/ n = 0 THEN 0
    ELSE IF 2 * n <= d
         THEN (5 * n * n * RatioScale) \div (2 * (d * d + n * n))
         ELSE LET m == d - n
              IN  RatioScale - (5 * m * m * RatioScale) \div (2 * (d * d + m * m))

\* sin(a) for a in [0, pi] milliradians, in SinScale units
SinHalfTurn(a) ==
    LET q == a * (PiMilli - a)
    IN  (16 * SinScale * (q \div 100)) \div ((5 * PiMilli * PiMilli - 4 * q) \div 100)

\* math.sin(angle), angle in milliradians
Sin(angle) ==
    LET a == angle % (2 * PiMilli)
    IN  IF a <= PiMilli THEN SinHalfTurn(a) ELSE -SinHalfTurn(a - PiMilli)

----------------------------------------------------------------------------
(* Keyframe store *)

\* KfGet with 0 returned for every missing key
KfGetZeroDefault(kf, joint, default) == IF joint \in DOMAIN kf THEN kf[joint] ELSE 0

\* dict.get(joint, default)
KfGet(kf, joint, default) == IF joint \in DOMAIN kf THEN kf[joint] ELSE default

HomeKeyframe ==
    [j \in Joints |->
        CASE j = "Slider 22" -> -22000
          [] j = "Slider 23" -> 22000
          [] OTHER -> 0]

Pose(j1, j2, j3, j4, j5, j6, j7, s22, s23) ==
    [j \in Joints |->
        CASE j = "joint_1" -> j1 * Micro
          [] j = "joint_2" -> j2 * Micro
          [] j = "joint_3" -> j3 * Micro
          [] j = "joint_4" -> j4 * Micro
          [] j = "joint_5" -> j5 * Micro
          [] j = "joint_6" -> j6 * Micro
          [] j = "joint_7" -> j7 * Micro
          [] j = "Slider 22" -> s22
          [] OTHER -> s23]

\* the keyframes _create_default_movement adds (joint_3 of the pickup is 31.2)
DefaultMovement ==
    (0 :> Pose(0, 0, 20, 0, 0, 0, 0, -22000, 22000))
    @@ (100 :> Pose(30, -60, 30, 15, 45, -30, 5, -3000, 3000))
    @@ (200 :> [Pose(0, -84, 31, 0, 55, -90, 0, -3000, 3000) EXCEPT !["joint_3"] = 31200000])
    @@ (210 :> [Pose(0, -84, 31, 0, 45, -90, 0, -22000, 22000) EXCEPT !["joint_3"] = 31200000])
    @@ (399 :> Pose(0, 0, 20, 0, 0, 0, 0, -22000, 22000))

\* Normalize with the final keyframe synthesized as the home pose
NormalizeNoClone(kf, tf) ==
    LET k1 == IF 0 \in DOMAIN kf THEN kf ELSE kf @@ (0 :> HomeKeyframe)
    IN  IF (tf - 1) \in DOMAIN k1 THEN k1 ELSE k1 @@ ((tf - 1) :> HomeKeyframe)

\* lines 135-143: add start and end keyframes if not present
Normalize(kf, tf) ==
    LET k1 == IF 0 \in DOMAIN kf THEN kf ELSE kf @@ (0 :> HomeKeyframe)
    IN  IF (tf - 1) \in DOMAIN k1 THEN k1 ELSE k1 @@ ((tf - 1) :> k1[0])

RECURSIVE SortedSeq(_)
SortedSeq(S) ==
    IF S = {} THEN <<>>
    ELSE LET m == CHOOSE x \in S : \A y \in S : x <= y
         IN  <<m>> \o SortedSeq(S \ {m})

\* sorted(self.keyframes.keys())
SortedFrames(kf) == SortedSeq(DOMAIN kf)

----------------------------------------------------------------------------
(* Oscillation *)

precision_frames == 10
SliderThreshold == 1000
SpeedFloor == 1000

\* InPrecisionZone with the radius test made inclusive
InPrecisionZoneInclusive(frame, frames) ==
    \E keyframe \in frames : Abs(frame - keyframe) <= precision_frames

\* lines 177-184
InPrecisionZone(frame, frames) ==
    \E keyframe \in frames : Abs(frame - keyframe) < precision_frames

\* SpeedFactor without the lower bound
SpeedFactorNoFloor(speed) == RatioScale - speed \div 1000

\* line 194: max(0.1, 1.0 - speed * 0.1), speed in Micro units per frame
SpeedFactor(speed) == Max(SpeedFloor, RatioScale - speed \div 1000)

\* SliderStill with the slider rule dropped
SliderStillNever(joint, movement_distance) == FALSE

\* line 200
SliderStill(joint, movement_distance) ==
    joint \in SliderJoints /\ movement_distance < SliderThreshold

\* GetOscillation with the global factor left out of the product
GetOscillationNoGlobal(joint, frame, speed_factor, cfg) ==
    IF joint \notin DOMAIN cfg.params THEN 0
    ELSE LET params == cfg.params[joint]
             joint_factor == KfGet(cfg.factors, joint, FactorScale)
             base_osc == MulDiv(params.base_amp,
                                Sin(frame * params.freq + params.phase), SinScale)
         IN  MulDiv(TruncDiv(base_osc * joint_factor, FactorScale),
                    speed_factor, RatioScale)

\* get_oscillation; cfg = [factors, params, global]
GetOscillation(joint, frame, speed_factor, cfg) ==
    IF joint \notin DOMAIN cfg.params THEN 0
    ELSE LET params == cfg.params[joint]
             joint_factor == KfGet(cfg.factors, joint, FactorScale)
             base_osc == MulDiv(params.base_amp,
                                Sin(frame * params.freq + params.phase), SinScale)
         IN  MulDiv(TruncDiv(TruncDiv(base_osc * joint_factor, FactorScale) * cfg.global,
                             FactorScale),
                    speed_factor, RatioScale)

----------------------------------------------------------------------------
(* generate_movement: one cell of one segment, lines 158-203 *)

SegmentCell(kf, start_frame, end_frame, frame, joint, cfg) ==
    LET ease_t == EaseT(frame - start_frame, end_frame - start_frame)
        start_val == KfGet(kf[start_frame], joint, 0)
        end_val == KfGet(kf[end_frame], joint, start_val)
        base_value == start_val + MulDiv(end_val - start_val, ease_t, RatioScale)
        is_precision_zone == InPrecisionZone(frame, DOMAIN kf)
        damped == ~is_precision_zone /\ cfg.factors[joint] > 0
        movement_distance == Abs(end_val - start_val)
        segment_length == Max(1, end_frame - start_frame)
        speed == movement_distance \div segment_length
        speed_factor == SpeedFactor(speed)
        oscillation ==
            IF ~damped THEN 0
            ELSE IF SliderStill(joint, movement_distance) THEN 0
            ELSE GetOscillation(joint, frame, speed_factor, cfg)
    IN  [start_val |-> start_val,
         end_val |-> end_val,
         base_value |-> base_value,
         damped |-> damped,
         speed |-> IF damped THEN speed ELSE 0,
         speed_factor |-> IF damped THEN speed_factor ELSE 0,
         oscillation |-> oscillation,
         value |-> base_value + oscillation]

\* the cells the segment loop writes before it ends or raises: <<segment, frame, joint>>
SegmentCells(sf, tf) ==
    UNION {{<<i, f, j>> : f \in sf[i]..Min(sf[i + 1], tf - 1), j \in Joints} :
           i \in 1..(Len(sf) - 1)}

\* lines 149-203
SegmentWrites(kf, tf, cfg) ==
    LET sf == SortedFrames(kf)
    IN  [c \in SegmentCells(sf, tf) |->
            SegmentCell(kf, sf[c[1]], sf[c[1] + 1], c[2], c[3], cfg)]

\* line 203 indexes a numpy array of length total_frames
IndexError(kf, tf) ==
    LET sf == SortedFrames(kf)
    IN  \E i \in 1..(Len(sf) - 1) : sf[i + 1] > tf - 1

\* AssembledData with the cells at keyframe frames left as they were
AssembledDataKeepsKeyframes(old, w, kf, tf) ==
    LET sf == SortedFrames(kf)
        Covering(f) == {i \in 1..(Len(sf) - 1) : sf[i] < f /\ f < sf[i + 1]}
        Last(f) == CHOOSE i \in Covering(f) : \A k \in Covering(f) : k <= i
    IN  [j \in Joints |->
            [f \in 0..(tf - 1) |->
                IF Covering(f) = {} THEN old[j][f] ELSE w[<<Last(f), f, j>>].value]]

\* self.data after the segment loop: the last write to a cell wins
AssembledData(old, w, kf, tf) ==
    LET sf == SortedFrames(kf)
        Covering(f) == {i \in 1..(Len(sf) - 1) : sf[i] <= f /\ f <= sf[i + 1]}
        Last(f) == CHOOSE i \in Covering(f) : \A k \in Covering(f) : k <= i
    IN  [j \in Joints |->
            [f \in 0..(tf - 1) |->
                IF Covering(f) = {} THEN old[j][f] ELSE w[<<Last(f), f, j>>].value]]

----------------------------------------------------------------------------
(* _apply_smoothing *)

RECURSIVE SumQuot(_, _, _, _)
SumQuot(col, lo, hi, n) ==
    IF lo > hi THEN 0 ELSE (col[lo] \div n) + SumQuot(col, lo + 1, hi, n)

RECURSIVE SumRem(_, _, _, _)
SumRem(col, lo, hi, n) ==
    IF lo > hi THEN 0 ELSE (col[lo] % n) + SumRem(col, lo + 1, hi, n)

\* np.mean(data[start:end]), rounded down to the model's resolution
Mean(col, start, end) ==
    LET n == end - start
    IN  SumQuot(col, start, end - 1, n) + SumRem(col, start, end - 1, n) \div n

\* lines 214-220
MovingAverage(col, window_size) ==
    LET len == Cardinality(DOMAIN col)
    IN  [i \in DOMAIN col |->
            Mean(col, Max(0, i - window_size \div 2),
                      Min(len, i + window_size \div 2 + 1))]

\* lines 217-219: the number of samples in data[start:end] at index i
WindowSamples(i, len, window_size) ==
    Min(len, i + window_size \div 2 + 1) - Max(0, i - window_size \div 2)

\* line 226: max(3, int(factor * 5))
WindowSize(factor) == Max(3, TruncDiv(factor * 5, FactorScale))

\* lines 223-227
ApplySmoothing(d, factors) ==
    [j \in Joints |->
        IF j \in RotationalJoints
        THEN MovingAverage(d[j], WindowSize(factors[j]))
        ELSE d[j]]

\* lines 149-208 on a normalized store that raises no IndexError:
\* the table generate_movement returns
Trajectory(kf, tf, cfg, old) ==
    ApplySmoothing(AssembledData(old, SegmentWrites(kf, tf, cfg), kf, tf), cfg.factors)

----------------------------------------------------------------------------
(* Arguments the environment passes *)

ApproachPose == Pose(30, -60, 30, 15, 45, -30, 5, -3000, 3000)
PartialPose == ("joint_1" :> 240 * Micro) @@ ("Slider 22" :> -21500)
PoseArgs == {ApproachPose, PartialPose}
FrameArgs(tf) == {f \in {0, MidFrame, tf - 1} : f <= tf - 1}
FrameCountArgs == {1, MaxFrames}
GlobalArgs == {FactorScale, -FactorScale}
FactorArgs == {-5, 0, 15}
JointArgs == {"joint_6", "Slider 22", "joint_9"}
AmplitudeArgs == {-2 * Micro}
FrequencyArgs == {150}

----------------------------------------------------------------------------
(* The object *)

Cfg == [factors |-> osc_factors, params |-> osc_params, global |-> global_osc_factor]

\* the publisher node is not started
NodeNotStarted ==
    /\ loop = FALSE
    /\ node_data = [columns |-> {}, rows |-> <<>>]
    /\ current_frame = 0
    /\ frames_published = 0
    /\ timer = "none"
    /\ published = <<>>
    /\ ticks = 0

\* __init__(total_frames, global_osc_factor)
Constructed ==
    /\ total_frames \in FrameCountArgs
    /\ global_osc_factor \in GlobalArgs
    /\ osc_factors = DefaultOscFactors
    /\ osc_params = DefaultOscParams
    /\ keyframes = <<>>
    /\ data = InitialData(total_frames)
    /\ status = "idle"
    /\ kf_in = <<>>
    /\ fallback = FALSE
    /\ writes = <<>>
    /\ raw = InitialData(total_frames)
    /\ calls = 0
    /\ added = {}
    /\ passes = 0

Init ==
    /\ Constructed
    /\ session = MaxCalls
    /\ NodeNotStarted

Called ==
    /\ calls < session
    /\ calls' = calls + 1
    /\ UNCHANGED <<session, node_vars>>

Configured ==
    /\ Called
    /\ status' = "idle"
    /\ passes' = 0
    /\ UNCHANGED <<total_frames, data, kf_in, fallback, writes, raw>>

set_global_oscillation_factor(factor) ==
    /\ Configured
    /\ global_osc_factor' = Max(0, factor)
    /\ UNCHANGED <<osc_factors, osc_params, keyframes, added>>

set_joint_oscillation_factor(joint_name, factor) ==
    /\ Configured
    /\ osc_factors' = IF joint_name \in DOMAIN osc_factors
                      THEN [osc_factors EXCEPT ![joint_name] = Max(0, factor)]
                      ELSE osc_factors
    /\ UNCHANGED <<global_osc_factor, osc_params, keyframes, added>>

set_all_joints_oscillation(factor) ==
    /\ Configured
    /\ osc_factors' = [joint \in DOMAIN osc_factors |-> Max(0, factor)]
    /\ UNCHANGED <<global_osc_factor, osc_params, keyframes, added>>

set_oscillation_amplitude(joint_name, amplitude) ==
    /\ Configured
    /\ osc_params' = IF joint_name \in DOMAIN osc_params
                     THEN [osc_params EXCEPT ![joint_name].base_amp = amplitude]
                     ELSE osc_params
    /\ UNCHANGED <<global_osc_factor, osc_factors, keyframes, added>>

set_oscillation_frequency(joint_name, frequency) ==
    /\ Configured
    /\ osc_params' = IF joint_name \in DOMAIN osc_params
                     THEN [osc_params EXCEPT ![joint_name].freq = frequency]
                     ELSE osc_params
    /\ UNCHANGED <<global_osc_factor, osc_factors, keyframes, added>>

add_keyframe(frame, joints) ==
    /\ Configured
    /\ keyframes' = [f \in DOMAIN keyframes \cup {frame} |->
                        IF f = frame THEN joints ELSE keyframes[f]]
    /\ added' = added \cup {frame}
    /\ UNCHANGED <<global_osc_factor, osc_factors, osc_params>>

\* generate_movement, with _create_default_movement and _apply_smoothing
generate_movement ==
    /\ Called
    /\ LET empty == DOMAIN keyframes = {}
           stored == IF empty THEN DefaultMovement ELSE keyframes
           kf == Normalize(stored, total_frames)
           w == SegmentWrites(kf, total_frames, Cfg)
           assembled == AssembledData(data, w, kf, total_frames)
           failed == IndexError(kf, total_frames)
       IN  /\ kf_in' = keyframes
           /\ fallback' = empty
           /\ keyframes' = kf
           /\ writes' = w
           /\ raw' = assembled
           /\ data' = IF failed THEN assembled
                      ELSE ApplySmoothing(assembled, osc_factors)
           /\ status' = IF failed THEN "error" ELSE "done"
    /\ passes' = passes + 1
    /\ UNCHANGED <<total_frames, global_osc_factor, osc_factors, osc_params, added>>

Next ==
    \/ \E factor \in FactorArgs : set_global_oscillation_factor(factor)
    \/ \E joint_name \in JointArgs, factor \in FactorArgs :
           set_joint_oscillation_factor(joint_name, factor)
    \/ \E factor \in FactorArgs : set_all_joints_oscillation(factor)
    \/ \E joint_name \in JointArgs, amplitude \in AmplitudeArgs :
           set_oscillation_amplitude(joint_name, amplitude)
    \/ \E joint_name \in JointArgs, frequency \in FrequencyArgs :
           set_oscillation_frequency(joint_name, frequency)
    \/ \E frame \in FrameArgs(total_frames), joints \in PoseArgs :
           add_keyframe(frame, joints)
    \/ generate_movement

Spec == Init /\ [][Next]_vars

\* A caller that only adds keyframes and generates, over one more call
InitTwoPass ==
    /\ Constructed
    /\ session = MaxCalls + 1
    /\ NodeNotStarted

NextTwoPass ==
    \/ \E frame \in FrameArgs(total_frames), joints \in PoseArgs :
           add_keyframe(frame, joints)
    \/ generate_movement

SpecTwoPass == InitTwoPass /\ [][NextTwoPass]_vars

----------------------------------------------------------------------------
(* The publisher node *)

\* np.deg2rad on a value in 1e-6 units
DegToRad(value) == MulDiv(value, PiMilli, 180 * 1000)

\* self.joint_config
JointConfig ==
    [joint_name \in Joints |-> [csv_column |-> joint_name, is_degree |-> TRUE]]

\* self.joint_names
JointNames == <<"joint_1", "joint_2", "joint_3", "joint_4", "joint_5",
                "joint_6", "joint_7", "Slider 22", "Slider 23">>

\* get_joint_values_from_row; every cell of the table holds a number, so
\* float() does not raise
GetJointValuesFromRow(row) ==
    [k \in 1..Len(JointNames) |->
        LET config == JointConfig[JointNames[k]]
            csv_col == config.csv_column
        IN  IF csv_col \in DOMAIN row
            THEN IF config.is_degree THEN DegToRad(row[csv_col]) ELSE row[csv_col]
            ELSE 0]

\* the JointState message built from a row
Message(row) ==
    [name |-> JointNames,
     position |-> GetJointValuesFromRow(row),
     velocity |-> [k \in 1..Len(JointNames) |-> 0],
     effort |-> [k \in 1..Len(JointNames) |-> 0]]

\* self.total_frames of the node
NodeTotalFrames == Len(node_data.rows)

\* self.data.iloc[index]
Iloc(index) == node_data.rows[index + 1]

\* Rows and tables the CSV file holds
HomeRow == HomeKeyframe
ApproachRow == ApproachPose
RowArgs == {HomeRow, ApproachRow}
ColumnArgs == {Joints, Joints \ {"joint_7", "Slider 23"}}
TableArgs ==
    {[columns |-> columns,
      rows |-> [i \in DOMAIN picked |-> [c \in columns |-> picked[i][c]]]] :
        columns \in ColumnArgs,
        picked \in UNION {[1..n -> RowArgs] : n \in 0..MaxRows}}

\* the generator object of a process that only runs the publisher
GeneratorIdle ==
    /\ Constructed
    /\ total_frames = 1
    /\ global_osc_factor = FactorScale
    /\ session = 0

\* BlenderJointPublisher.__init__: without rows the process exits before the
\* timer is created
NodeInit ==
    /\ GeneratorIdle
    /\ loop \in BOOLEAN
    /\ node_data \in TableArgs
    /\ current_frame = 0
    /\ frames_published = 0
    /\ timer = IF Len(node_data.rows) = 0 THEN "none" ELSE "active"
    /\ published = <<>>
    /\ ticks = 0

\* lines 185-225: build and publish the message of a row, move to the next row
PublishRow(index) ==
    /\ published' = Append(published, [row |-> index, msg |-> Message(Iloc(index))])
    /\ frames_published' = frames_published + 1
    /\ current_frame' = index + 1
    /\ UNCHANGED timer

\* the timer callback, as long as the timer is not cancelled
Tick ==
    /\ timer = "active"
    /\ ticks < MaxTicks
    /\ ticks' = ticks + 1
    /\ UNCHANGED <<loop, node_data, animator_vars>>

\* publish_next_frame that returns on exhaustion without cancelling the timer
publish_next_frame_keeps_timer ==
    /\ Tick
    /\ IF current_frame >= NodeTotalFrames
       THEN IF loop
            THEN PublishRow(0)
            ELSE UNCHANGED <<timer, current_frame, frames_published, published>>
       ELSE PublishRow(current_frame)

\* publish_next_frame that spends the wrapping tick on the reset alone
publish_next_frame_wrap_only ==
    /\ Tick
    /\ IF current_frame >= NodeTotalFrames
       THEN IF loop
            THEN /\ current_frame' = 0
                 /\ UNCHANGED <<timer, frames_published, published>>
            ELSE /\ timer' = "cancelled"
                 /\ UNCHANGED <<current_frame, frames_published, published>>
       ELSE PublishRow(current_frame)

\* publish_next_frame
publish_next_frame ==
    /\ Tick
    /\ IF current_frame >= NodeTotalFrames
       THEN IF loop
            THEN PublishRow(0)
            ELSE /\ timer' = "cancelled"
                 /\ UNCHANGED <<current_frame, frames_published, published>>
       ELSE PublishRow(current_frame)

NodeNext == publish_next_frame

NodeSpec == NodeInit /\ [][NodeNext]_vars

----------------------------------------------------------------------------
(* Vocabulary of the properties *)

\* the write records refer to the store and the settings of the current state
Generated == status # "idle"

Frame(c) == c[2]
Joint(c) == c[3]

NearKeyframe(f) == \E k \in DOMAIN keyframes : Abs(f - k) < 10
AwayFromKeyframes(f) == \A k \in DOMAIN keyframes : Abs(f - k) >= 10

\* start + (end - start) * ease(t) of segment c[1] at the cell's frame
PureEased(c) ==
    LET sf == SortedFrames(keyframes)
        a == sf[c[1]]
        b == sf[c[1] + 1]
        s == KfGet(keyframes[a], Joint(c), 0)
        e == KfGet(keyframes[b], Joint(c), s)
    IN  s + MulDiv(e - s, EaseT(Frame(c) - a, b - a), RatioScale)

DampedCells == {c \in DOMAIN writes : writes[c].damped}

----------------------------------------------------------------------------
(* Properties *)

\* C1: after generate_movement returns, the trajectory value at every keyframe
\* frame k, for every joint listed in that keyframe, equals the keyframe's
\* target value exactly.  Stated for runs of more than one frame, where every
\* cell is written by a segment.
C1_ExactAtKeyframes ==
    (status = "done" /\ total_frames > 1) =>
        \A k \in DOMAIN keyframes : \A j \in DOMAIN keyframes[k] :
            data[j][k] = keyframes[k][j]

\* C2: at every frame at distance < 10 from some keyframe, and for every joint,
\* the returned value is the one a run with the same keyframes and per-joint
\* settings but global oscillation factor 0 returns.
C2_ZoneValuesIndependentOfOscillation ==
    status = "done" =>
        LET still == Trajectory(keyframes, total_frames, [Cfg EXCEPT !.global = 0], raw)
        IN  \A f \in 0..(total_frames - 1) : \A j \in Joints :
                NearKeyframe(f) => data[j][f] = still[j][f]

\* C3: in assembly the oscillation term of a cell is 0 whenever the frame is at
\* distance < 10 from some keyframe of the normalized store, whatever the
\* factors; the test is strict: at distance >= 10 from every keyframe a joint
\* with a positive factor gets the damped oscillation of get_oscillation.
C3_PrecisionZoneSilencing ==
    Generated =>
        \A c \in DOMAIN writes :
            /\ NearKeyframe(Frame(c)) => writes[c].oscillation = 0
            /\ (AwayFromKeyframes(Frame(c)) /\ osc_factors[Joint(c)] > 0)
                   => writes[c].damped

\* C3 witness: non-zero factors, a cell at distance exactly 10 from its nearest
\* keyframe that oscillates, and a cell at distance 9 whose oscillation is 0.
C3_Witness ==
    /\ status = "done"
    /\ global_osc_factor # 0
    /\ \E c \in DOMAIN writes :
           /\ AwayFromKeyframes(Frame(c))
           /\ \E k \in DOMAIN keyframes : Abs(Frame(c) - k) = 10
           /\ writes[c].oscillation # 0
    /\ \E c \in DOMAIN writes :
           /\ \E k \in DOMAIN keyframes : Abs(Frame(c) - k) = 9
           /\ osc_factors[Joint(c)] > 0
           /\ writes[c].oscillation = 0

C5_SharedBoundaryIdempotent ==
    Generated =>
        \A c \in DOMAIN writes :
            <<c[1] + 1, Frame(c), Joint(c)>> \in DOMAIN writes =>
                writes[<<c[1] + 1, Frame(c), Joint(c)>>].value = writes[c].value

\* C6: once generate_movement has normalized a non-empty store, keyframes exist
\* at frame 0 and at frame total_frames-1; an absent frame-0 keyframe is the
\* home pose, an absent final keyframe is a copy of the frame-0 keyframe, and
\* the keyframes the caller supplied are unchanged.
C6_BoundaryNormalization ==
    (Generated /\ ~fallback) =>
        /\ DOMAIN keyframes = DOMAIN kf_in \cup {0, total_frames - 1}
        /\ \A k \in DOMAIN kf_in : keyframes[k] = kf_in[k]
        /\ 0 \notin DOMAIN kf_in =>
               /\ DOMAIN keyframes[0] = Joints
               /\ \A j \in RotationalJoints : keyframes[0][j] = 0
               /\ keyframes[0]["Slider 22"] = -22000
               /\ keyframes[0]["Slider 23"] = 22000
        /\ (total_frames - 1) \notin DOMAIN kf_in =>
               keyframes[total_frames - 1] = keyframes[0]

\* C6 witness: the caller supplied a frame-0 keyframe other than the home pose
\* and no final keyframe, and generate_movement has run.
C6_Witness ==
    /\ status = "done"
    /\ ~fallback
    /\ total_frames > 1
    /\ 0 \in DOMAIN kf_in
    /\ (total_frames - 1) \notin DOMAIN kf_in
    /\ kf_in[0] # HomeKeyframe
    /\ keyframes[total_frames - 1] = kf_in[0]

\* C7: for a slider joint whose start and end keyframe values in a segment
\* differ by less than 0.001, the oscillation term is 0 at every frame of the
\* segment.
C7_SliderStillness ==
    Generated =>
        \A c \in DOMAIN writes :
            (Joint(c) \in SliderJoints
             /\ Abs(writes[c].end_val - writes[c].start_val) < 1000)
                => writes[c].oscillation = 0

\* C7 witness: a slider segment whose ends differ by less than 0.001 but are
\* not equal, at a frame outside every precision zone, with non-zero factors
\* and amplitude.
C7_Witness ==
    /\ status = "done"
    /\ global_osc_factor # 0
    /\ \E c \in DampedCells :
           /\ Joint(c) \in SliderJoints
           /\ osc_params[Joint(c)].base_amp # 0
           /\ writes[c].end_val # writes[c].start_val
           /\ Abs(writes[c].end_val - writes[c].start_val) < 1000
           /\ writes[c].oscillation = 0

\* C8: speed is |end - start| / max(1, end_frame - start_frame); speed_factor
\* lies in [0.1, 1.0]; of two segment joints the one with the larger speed has
\* the smaller or equal speed_factor; all frames of a segment use the same
\* speed_factor for a joint.
C8_DampingMonotoneAndBounded ==
    Generated =>
        LET sf == SortedFrames(keyframes)
        IN  \A c \in DampedCells :
                /\ writes[c].speed =
                       Abs(writes[c].end_val - writes[c].start_val)
                           \div Max(1, sf[c[1] + 1] - sf[c[1]])
                /\ writes[c].speed_factor >= 1000
                /\ writes[c].speed_factor <= 10000
                /\ \A d \in DampedCells :
                       /\ writes[c].speed >= writes[d].speed
                              => writes[c].speed_factor <= writes[d].speed_factor
                       /\ (c[1] = d[1] /\ Joint(c) = Joint(d))
                              => writes[c].speed_factor = writes[d].speed_factor

\* C8 witness: two damped cells, the faster one at the floor 0.1 and the slower
\* one strictly above it, and a segment joint damped at two frames.
C8_Witness ==
    /\ status = "done"
    /\ \E c, d \in DampedCells :
           /\ writes[c].speed > writes[d].speed
           /\ writes[c].speed_factor = 1000
           /\ writes[d].speed_factor > 1000
    /\ \E c, d \in DampedCells :
           c[1] = d[1] /\ Joint(c) = Joint(d) /\ Frame(c) # Frame(d)

\* C9: generate_movement called with no keyframes ends without an error, the
\* keyframes it installed lie in [0, total_frames-1], and the table has one row
\* per frame 0..total_frames-1.
C9_EmptyStoreFallsBack ==
    (Generated /\ fallback) =>
        /\ status = "done"
        /\ DOMAIN keyframes \subseteq 0..(total_frames - 1)
        /\ \A j \in Joints : DOMAIN data[j] = 0..(total_frames - 1)

\* C10: a factor or amplitude setter called with a negative value stores 0.
C10_SettersClampNegatives ==
    [][/\ \A factor \in FactorArgs :
              (factor < 0 /\ set_global_oscillation_factor(factor))
                  => global_osc_factor' = 0
       /\ \A joint_name \in JointArgs \cap Joints, factor \in FactorArgs :
              (factor < 0 /\ set_joint_oscillation_factor(joint_name, factor))
                  => osc_factors'[joint_name] = 0
       /\ \A factor \in FactorArgs :
              (factor < 0 /\ set_all_joints_oscillation(factor))
                  => \A j \in Joints : osc_factors'[j] = 0
       /\ \A joint_name \in JointArgs \cap Joints, amplitude \in AmplitudeArgs :
              (amplitude < 0 /\ set_oscillation_amplitude(joint_name, amplitude))
                  => osc_params'[joint_name].base_amp = 0
      ]_vars

\* C11: when the keyframe at the start of a segment omits a joint, the start
\* value used for that joint is 0 for a rotational joint and the registry
\* default for a slider (-0.022 for 'Slider 22', 0.022 for 'Slider 23').
C11_OmittedJointDefault ==
    Generated =>
        LET sf == SortedFrames(keyframes)
        IN  \A c \in DOMAIN writes :
                Joint(c) \notin DOMAIN keyframes[sf[c[1]]] =>
                    writes[c].start_val =
                        CASE Joint(c) = "Slider 22" -> -22000
                          [] Joint(c) = "Slider 23" -> 22000
                          [] OTHER -> 0

\* C12: for a joint absent from the end keyframe of a segment, the eased base
\* value equals the start value at every frame of the closed segment and the
\* movement distance used for damping and slider stillness is 0.
C12_HoldOnMissingEndTarget ==
    Generated =>
        LET sf == SortedFrames(keyframes)
        IN  \A c \in DOMAIN writes :
                Joint(c) \notin DOMAIN keyframes[sf[c[1] + 1]] =>
                    LET start == IF Joint(c) \in DOMAIN keyframes[sf[c[1]]]
                                 THEN keyframes[sf[c[1]]][Joint(c)]
                                 ELSE 0
                    IN  /\ writes[c].base_value = start
                        /\ Abs(writes[c].end_val - writes[c].start_val) = 0
                        /\ writes[c].damped =>
                               /\ writes[c].speed = 0
                               /\ writes[c].speed_factor = 10000

\* C12 witness: a joint with a non-zero start value is absent from the end
\* keyframe of a segment; it is held at a frame outside the precision zones
\* and at the last frame of the segment.
C12_Witness ==
    /\ status = "done"
    /\ LET sf == SortedFrames(keyframes)
       IN  \E c, d \in DOMAIN writes :
               /\ c[1] = d[1] /\ Joint(c) = Joint(d)
               /\ Joint(c) \notin DOMAIN keyframes[sf[c[1] + 1]]
               /\ writes[c].start_val # 0
               /\ writes[c].damped
               /\ writes[c].base_value = writes[c].start_val
               /\ Frame(d) = sf[d[1] + 1]
               /\ writes[d].base_value = writes[d].start_val

\* C13: with loop false and a table of N rows, the ticks publish the rows
\* 0..N-1 in order, one message each; the tick after the last row publishes
\* nothing and cancels the timer, and nothing is published afterwards.
C13_StopOnExhaustion ==
    (~loop /\ timer # "none") =>
        /\ Len(published) = Min(ticks, NodeTotalFrames)
        /\ frames_published = Len(published)
        /\ \A i \in 1..Len(published) :
               /\ published[i].row = i - 1
               /\ published[i].msg = Message(node_data.rows[i])
        /\ (timer = "cancelled") <=> (ticks = NodeTotalFrames + 1)
        /\ ticks <= NodeTotalFrames + 1

\* C13 witness: a table of several rows was published to its end and the
\* next tick cancelled the timer.
C13_Witness ==
    /\ ~loop
    /\ NodeTotalFrames >= 2
    /\ timer = "cancelled"
    /\ Len(published) = NodeTotalFrames

\* C14: with loop true and a table of N >= 1 rows, every tick publishes
\* exactly one message, the i-th tick (from 0) publishes row i mod N, the
\* timer is never cancelled, and current_frame stays within [0, N].
C14_LoopMode ==
    (loop /\ timer # "none") =>
        /\ Len(published) = ticks
        /\ frames_published = ticks
        /\ \A i \in 1..Len(published) :
               /\ published[i].row = (i - 1) % NodeTotalFrames
               /\ published[i].msg = Message(Iloc((i - 1) % NodeTotalFrames))
        /\ timer = "active"
        /\ current_frame \in 0..NodeTotalFrames

\* C14 witness: a looping node has wrapped around a table of several rows
\* and published past the wrap.
C14_Witness ==
    /\ loop
    /\ NodeTotalFrames >= 2
    /\ ticks > NodeTotalFrames + 1
    /\ published[NodeTotalFrames + 1].row = 0
    /\ published[NodeTotalFrames + 2].row = 1

\* C15: a published position is the table value converted from degrees to
\* radians for the rotational joint columns and the table value itself for
\* the slider columns.
C15_UnitConversionByChannelType ==
    \A i \in 1..Len(published) :
        LET row == Iloc(published[i].row)
            msg == published[i].msg
        IN  \A k \in 1..Len(msg.name) :
                msg.name[k] \in DOMAIN row =>
                    msg.position[k] =
                        IF msg.name[k] \in RotationalJoints
                        THEN DegToRad(row[msg.name[k]])
                        ELSE row[msg.name[k]]

\* round(x) of Python for x = n / d >= 0: to the nearest integer, ties to even
RoundHalfEven(n, d) ==
    LET q == n \div d
        r == n % d
    IN  IF 2 * r < d THEN q
        ELSE IF 2 * r > d THEN q + 1
        ELSE IF q % 2 = 0 THEN q ELSE q + 1

\* the frames of a column whose slice data[start:end] is not cut at an end
InteriorFrames(len, window_size) ==
    {i \in 0..(len - 1) : i - window_size \div 2 >= 0 /\ i + window_size \div 2 + 1 <= len}

\* C16: for a rotational joint with oscillation factor f, the number of
\* samples averaged at an interior frame is max(3, round(5 * f)), centered on
\* that frame; slider joints are not smoothed at all.
C16_SmoothingWindowSize ==
    status = "done" =>
        /\ \A j \in RotationalJoints :
               LET window_size == WindowSize(osc_factors[j])
               IN  \A i \in InteriorFrames(total_frames, window_size) :
                       /\ WindowSamples(i, total_frames, window_size) =
                              Max(3, RoundHalfEven(osc_factors[j] * 5, FactorScale))
                       /\ data[j][i] = Mean(raw[j], i - window_size \div 2,
                                            i + window_size \div 2 + 1)
        /\ \A j \in SliderJoints : data[j] = raw[j]

\* C17: for a non-empty keyframe set in range, every cell (frame, joint) of
\* the table is written at least once by a segment computation, and a
\* single-frame run outputs the values of the frame-0 keyframe.
C17_FullCoverage ==
    (status = "done" /\ ~fallback) =>
        /\ \A j \in Joints : \A f \in 0..(total_frames - 1) :
               \E c \in DOMAIN writes : Frame(c) = f /\ Joint(c) = j
        /\ total_frames = 1 =>
               \A j \in DOMAIN keyframes[0] : data[j][0] = keyframes[0][j]

\* C18: in every state reachable by constructing the animator and calling its
\* setters, the global oscillation factor and every per-joint oscillation
\* factor are >= 0.
C18_FactorsNonNegative ==
    /\ global_osc_factor >= 0
    /\ \A j \in DOMAIN osc_factors : osc_factors[j] >= 0

\* C19: a generate_movement call that directly follows a generate_movement
\* call which returned, with no other call between them, returns the same
\* trajectory.
C19_RepeatableGeneration ==
    [][(status = "done" /\ status' = "done") => data' = data]_vars

\* C19 witness: the second of two consecutive generate_movement calls has
\* returned a table of more than one frame, with oscillation in it and changed
\* by smoothing.
C19_Witness ==
    /\ status = "done"
    /\ passes >= 2
    /\ total_frames > 1
    /\ data # raw
    /\ \E c \in DampedCells : writes[c].oscillation # 0

\* C20: when the caller never adds a keyframe at frame total_frames - 1, the
\* keyframe a generation pass uses at frame total_frames - 1 equals the
\* frame-0 keyframe in effect for that pass.
C20_FinalKeyframeTracksFrameZero ==
    (status = "done" /\ (total_frames - 1) \notin added) =>
        keyframes[total_frames - 1] = keyframes[0]

====
